---- MODULE Spec2Model ----
(***************************************************************************)
(* Print-job lifecycle engine of qz_tray_print: the qz.print.job state     *)
(* machine (submit_job, process_job, retry_job, cancel_job,                *)
(* mark_completed, mark_failed, batch_label_jobs, process_queued_jobs) and *)
(* the qz.printer activation hook (write,                                  *)
(* _process_queued_jobs_on_activation).                                    *)
(*                                                                         *)
(* A text value (error_message) is a sequence of fragments; a fragment is  *)
(* a record [k, a, b]: k names the message template of the source, a and b *)
(* are the strings substituted into it.  The empty sequence is Odoo's      *)
(* False.  A timestamp is a reading of the logical clock `now`; 0 is an    *)
(* unset date.                                                             *)
(***************************************************************************)
EXTENDS Integers, Sequences, FiniteSets, TLC

\* ---------------------------------------------------------------- bounds
MaxCreated == 1      \* jobs created by clients in the lifecycle specification
MaxBacklog == 2      \* jobs created by clients in the queue specifications
MaxJobs == 3         \* rows of the job table, batch jobs included
MaxFifo == 3         \* jobs created by clients for one printer's queue
MaxClock == 2        \* readings of fields.Datetime.now()
MaxRetryCfg == 1     \* largest configured qz_tray.retry_count
MaxErrLen == 2       \* fragments kept in one error_message
MaxMails == 2        \* failure mails kept in the log
MaxPool == 2         \* printers in the table that printer selection searches

\* ------------------------------------------------------------- printers
\* The registry holds two printers.  Their capability flags, type and name
\* are fixed; only `active` changes.
Printers == {1, 2}

printer_name(p) == IF p = 1 THEN "Front Desk" ELSE "Network Label"

\* qz.printer.system_name: printer 1 was created by discovery, which gives
\* a record its system name as name; printer 2 was registered under a name
\* of its own
system_name(p) == IF p = 1 THEN "Front Desk" ELSE "ZDesigner GK420d"

printer_type(p) == IF p = 1 THEN "receipt" ELSE "label"

printer_priority(p) == IF p = 1 THEN 10 ELSE 20

supports_pdf(p) == p = 1

supports_html(p) == p = 1

supports_escpos(p) == FALSE

supports_zpl(p) == p = 2

\* ------------------------------------------------------------- messages
Frag(k, a, b) == [k |-> k, a |-> a, b |-> b]

\* 'Printer %s is offline. Job queued for later processing.'
MsgOffline(p) == <<Frag("offline", printer_name(p), "")>>

\* 'Printer %s is not active'
MsgNotActive(p) == <<Frag("not_active", printer_name(p), "")>>

\* 'Printer %s does not support format %s'
MsgUnsupported(p, fmt) == <<Frag("unsupported", printer_name(p), fmt)>>

\* 'Maximum retry count exceeded'
MsgMaxRetry == <<Frag("max_retry", "", "")>>

\* 'Retry attempt %d at %s' (the time of day is not kept)
MsgRetryAttempt(n) == <<Frag("retry_attempt", ToString(n), "")>>

\* 'Combined into batch job %s'
MsgBatched(doc, pname, seqno) == <<Frag("batched", doc, pname \o "-" \o ToString(seqno))>>

\* a message reported by the frontend / QZ Tray
MsgSink(text) == <<Frag("sink", text, "")>>

\* messages the print sink reports in this model
SinkErrors == {"Connection timeout", "Paper jam"}

transient_keywords == {"timeout", "connection", "network", "offline", "unavailable", "busy"}

\* the transient keywords that occur in the lower-cased string s, for the
\* strings of this model
KeywordsIn(s) ==
    CASE s = "Connection timeout" -> {"connection", "timeout"}
      [] s = "Network Label" -> {"network"}
      [] OTHER -> {}

\* the transient keywords that occur in the fixed text of template k
KeywordsInTemplate(k) == IF k = "offline" THEN {"offline"} ELSE {}

FragKeywords(f) == KeywordsInTemplate(f.k) \cup KeywordsIn(f.a) \cup KeywordsIn(f.b)

_is_transient_error(msg) ==
    \E i \in 1..Len(msg) : FragKeywords(msg[i]) \cap transient_keywords # {}

Contains(msg, k) == \E i \in 1..Len(msg) : msg[i].k = k

\* ---------------------------------------------------------------- state
VARIABLES
    jobs,       \* the qz.print.job table: jobs[id] is the record with that id
    active,     \* qz.printer.active, per printer
    cfg,        \* ir.config_parameter: retry_enabled, max_retries, email_enabled
    now,        \* the clock read by fields.Datetime.now()
    sequence,   \* next value of ir.sequence 'qz.print.job', 0 without such a sequence
    mailed,     \* the failure mails sent: the job of each, in order
    workers,    \* the requests in progress when handlers interleave
    pool,       \* the qz.printer table that printer selection searches
    chosen,     \* the printer returned by the last selection, 0 for False
    created_printers    \* the names of the qz.printer records created by discovery

vars == <<jobs, active, cfg, now, sequence, mailed, workers, pool, chosen,
          created_printers>>

JobIds == 1..Len(jobs)

States == {"draft", "queued", "printing", "completed", "failed", "cancelled"}

label_types == {"label", "barcode", "product_label"}

\* the jobs clients create: document type, printer, format.  A receipt in
\* html for the receipt printer, and a label in html for the label printer,
\* which has no capability for html.
JobInputs == { <<"receipt", 1, "html">>, <<"label", 2, "html">> }

\* the jobs clients send to the label printer in zpl: labels and a receipt
FifoInputs == { <<"label", 2, "zpl">>, <<"receipt", 2, "zpl">> }

\* the jobs clients queue: the above, and a label in zpl for the label printer
QueueInputs == JobInputs \cup { <<"label", 2, "zpl">> }

\* the requests that may run at the same time
Workers == {1, 2}

IdleWorker ==
    [kind |-> "none", pc |-> "idle", printer |-> 0, ps |-> <<>>, todo |-> <<>>,
     cur |-> 0, won |-> {}]

\* ------------------------------------------------------------ functions
\* the counter after next_by_code('qz.print.job'): without a sequence of
\* that code the call returns False and nothing advances
next_by_code(seqno) == IF seqno = 0 THEN 0 ELSE seqno + 1

\* qz.print.job.create: the record as persisted, in state draft, with the
\* name built from document type, printer name and sequence value; the
\* sequence part 0 is the text 'New' that _get_default_name puts in place of
\* a missing sequence value
NewJob(doc, p, fmt, data, copies, prio, parent) ==
    [ name |-> <<doc, printer_name(p), sequence>>,
      document_type |-> doc,
      printer_id |-> p,
      state |-> "draft",
      data |-> data,
      data_format |-> fmt,
      copies |-> copies,
      priority |-> prio,
      error_message |-> <<>>,
      retry_count |-> 0,
      submitted_date |-> 0,
      completed_date |-> 0,
      parent_id |-> parent ]

format_supported(job) ==
    \/ job.data_format = "pdf" /\ supports_pdf(job.printer_id)
    \/ job.data_format = "html" /\ supports_html(job.printer_id)
    \/ job.data_format = "escpos" /\ supports_escpos(job.printer_id)
    \/ job.data_format = "zpl" /\ supports_zpl(job.printer_id)

\* the constraints on copies, priority and retry_count: TRUE when the
\* record passes, FALSE when the constraint raises ValidationError
_check_copies(record) == ~(record.copies < 1)

\* a constraint on priority that lets every value pass
_check_priority_off(record) == TRUE

_check_priority(record) == ~(record.priority < 0)

_check_retry_count(record) == ~(record.retry_count < 0)

\* create(vals) with the copies and priority given: the constraints run on
\* the new record, and the record persists when none of them raises
create(js, doc, p, fmt, copies, prio) ==
    LET record == NewJob(doc, p, fmt, <<ToString(sequence)>>, copies, prio, 0)
    IN IF _check_copies(record) /\ _check_priority(record) /\ _check_retry_count(record)
       THEN [js |-> Append(js, record), out |-> "created"]
       ELSE [js |-> js, out |-> "ValidationError"]

\* the fields with a constraint, and write({field: value}) on record j: the
\* constraint of the field written runs on the record as written, and the
\* write persists when it does not raise
CheckedFields == {"copies", "priority", "retry_count"}

write_value(js, j, field, value) ==
    LET record == CASE field = "copies" -> [js[j] EXCEPT !.copies = value]
                    [] field = "priority" -> [js[j] EXCEPT !.priority = value]
                    [] field = "retry_count" -> [js[j] EXCEPT !.retry_count = value]
        passes == CASE field = "copies" -> _check_copies(record)
                    [] field = "priority" -> _check_priority(record)
                    [] field = "retry_count" -> _check_retry_count(record)
    IN IF passes
       THEN [js |-> [js EXCEPT ![j] = record], out |-> "written"]
       ELSE [js |-> js, out |-> "ValidationError"]

\* submit_job starting the retry count afresh on every submission
submit_job_resets_retries(job, act) ==
    IF job.data = <<>>
    THEN job
    ELSE IF ~act[job.printer_id]
    THEN [job EXCEPT !.submitted_date = now, !.state = "queued", !.retry_count = 0,
                     !.error_message = MsgOffline(job.printer_id)]
    ELSE [job EXCEPT !.submitted_date = now, !.state = "queued", !.retry_count = 0]

\* submit_job on record `job`: a job without data is refused (the record is
\* left as it is); otherwise the job is queued, whatever its state, with the
\* offline note when its printer is inactive
submit_job(job, act) ==
    IF job.data = <<>>
    THEN job
    ELSE IF ~act[job.printer_id]
    THEN [job EXCEPT !.submitted_date = now, !.state = "queued",
                     !.error_message = MsgOffline(job.printer_id)]
    ELSE [job EXCEPT !.submitted_date = now, !.state = "queued"]

\* cancel_job without the test of the state
cancel_job_any_state(job) ==
    [job |-> [job EXCEPT !.state = "cancelled", !.completed_date = now], ret |-> TRUE]

\* cancel_job: refused for a completed or cancelled job only; the record
\* afterwards and the value returned
cancel_job(job) ==
    IF job.state \in {"completed", "cancelled"}
    THEN [job |-> job, ret |-> FALSE]
    ELSE [job |-> [job EXCEPT !.state = "cancelled", !.completed_date = now], ret |-> TRUE]

\* mark_completed leaving error_message as it is
mark_completed_keeps_error(job) ==
    [job EXCEPT !.state = "completed", !.completed_date = now]

\* mark_completed: no test of the state
mark_completed(job) ==
    [job EXCEPT !.state = "completed", !.completed_date = now, !.error_message = <<>>]

\* the except-branch of process_job: the job is failed with the message of
\* the exception; completed_date only for a non-transient message
ProcessFailed(job, msg) ==
    IF _is_transient_error(msg)
    THEN [job EXCEPT !.state = "failed", !.error_message = msg]
    ELSE [job EXCEPT !.state = "failed", !.error_message = msg, !.completed_date = now]

\* the try-block of process_job without the validation that the printer is
\* active
ProcessClaimed_any_printer(job, act) ==
    IF ~format_supported(job)
    THEN [job |-> ProcessFailed(job, MsgUnsupported(job.printer_id, job.data_format)),
          ret |-> FALSE, raised |-> FALSE]
    ELSE [job |-> [job EXCEPT !.state = "printing"], ret |-> TRUE, raised |-> FALSE]

\* the try-block of process_job: the write of state printing, then the
\* validation of the printer; the record afterwards, the value returned and
\* whether an exception reaches the caller (`except Exception` catches the
\* ValidationError of either validation, and False is returned)
ProcessClaimed(job, act) ==
    IF ~act[job.printer_id]
    THEN [job |-> ProcessFailed(job, MsgNotActive(job.printer_id)),
          ret |-> FALSE, raised |-> FALSE]
    ELSE IF ~format_supported(job)
    THEN [job |-> ProcessFailed(job, MsgUnsupported(job.printer_id, job.data_format)),
          ret |-> FALSE, raised |-> FALSE]
    ELSE [job |-> [job EXCEPT !.state = "printing"], ret |-> TRUE, raised |-> FALSE]

\* process_job on record `job` with the printers' activity `act`:
\* the record afterwards and the value returned
process_job(job, act) ==
    IF job.state \notin {"queued", "failed"}
    THEN [job |-> job, ret |-> FALSE, raised |-> FALSE]
    ELSE ProcessClaimed(job, act)

\* retry_job without the test for a transient error: every failed job below
\* the limit is retried
retry_job_any_error(job, act) ==
    IF job.state # "failed"
    THEN [job |-> job, ret |-> FALSE, notify |-> FALSE]
    ELSE IF ~cfg.retry_enabled
    THEN [job |-> job, ret |-> FALSE, notify |-> FALSE]
    ELSE IF job.retry_count >= cfg.max_retries
    THEN [job |-> [job EXCEPT !.completed_date = now,
                              !.error_message = job.error_message \o MsgMaxRetry],
          ret |-> FALSE, notify |-> TRUE]
    ELSE LET requeued == [job EXCEPT !.state = "queued",
                                     !.retry_count = job.retry_count + 1,
                                     !.error_message = job.error_message
                                         \o MsgRetryAttempt(job.retry_count + 1)]
             r == process_job(requeued, act)
         IN [job |-> r.job, ret |-> r.ret, notify |-> FALSE]

\* retry_job forgetting to write the incremented retry_count
retry_job_no_increment(job, act) ==
    IF job.state # "failed"
    THEN [job |-> job, ret |-> FALSE, notify |-> FALSE]
    ELSE IF ~cfg.retry_enabled
    THEN [job |-> job, ret |-> FALSE, notify |-> FALSE]
    ELSE IF job.retry_count >= cfg.max_retries
    THEN [job |-> [job EXCEPT !.completed_date = now,
                              !.error_message = job.error_message \o MsgMaxRetry],
          ret |-> FALSE, notify |-> TRUE]
    ELSE IF ~_is_transient_error(job.error_message)
    THEN [job |-> [job EXCEPT !.completed_date = now], ret |-> FALSE, notify |-> FALSE]
    ELSE LET requeued == [job EXCEPT !.state = "queued",
                                     !.error_message = job.error_message
                                         \o MsgRetryAttempt(job.retry_count + 1)]
             r == process_job(requeued, act)
         IN [job |-> r.job, ret |-> r.ret, notify |-> FALSE]

\* retry_job comparing retry_count > max_retries: one retry too many
retry_job_off_by_one(job, act) ==
    IF job.state # "failed"
    THEN [job |-> job, ret |-> FALSE, notify |-> FALSE]
    ELSE IF ~cfg.retry_enabled
    THEN [job |-> job, ret |-> FALSE, notify |-> FALSE]
    ELSE IF job.retry_count > cfg.max_retries
    THEN [job |-> [job EXCEPT !.completed_date = now,
                              !.error_message = job.error_message \o MsgMaxRetry],
          ret |-> FALSE, notify |-> TRUE]
    ELSE IF ~_is_transient_error(job.error_message)
    THEN [job |-> [job EXCEPT !.completed_date = now], ret |-> FALSE, notify |-> FALSE]
    ELSE LET requeued == [job EXCEPT !.state = "queued",
                                     !.retry_count = job.retry_count + 1,
                                     !.error_message = job.error_message
                                         \o MsgRetryAttempt(job.retry_count + 1)]
             r == process_job(requeued, act)
         IN [job |-> r.job, ret |-> r.ret, notify |-> FALSE]

\* retry_job: the record afterwards, the value returned, and whether
\* _notify_admin_failure was invoked
retry_job(job, act) ==
    IF job.state # "failed"
    THEN [job |-> job, ret |-> FALSE, notify |-> FALSE]
    ELSE IF ~cfg.retry_enabled
    THEN [job |-> job, ret |-> FALSE, notify |-> FALSE]
    ELSE IF job.retry_count >= cfg.max_retries
    THEN [job |-> [job EXCEPT !.completed_date = now,
                              !.error_message = job.error_message \o MsgMaxRetry],
          ret |-> FALSE, notify |-> TRUE]
    ELSE IF ~_is_transient_error(job.error_message)
    THEN [job |-> [job EXCEPT !.completed_date = now], ret |-> FALSE, notify |-> FALSE]
    ELSE LET requeued == [job EXCEPT !.state = "queued",
                                     !.retry_count = job.retry_count + 1,
                                     !.error_message = job.error_message
                                         \o MsgRetryAttempt(job.retry_count + 1)]
             r == process_job(requeued, act)
         IN [job |-> r.job, ret |-> r.ret, notify |-> FALSE]

\* mark_failed: the record afterwards and whether _notify_admin_failure
\* was invoked
mark_failed(job, msg, act) ==
    LET failed == [job EXCEPT !.state = "failed", !.error_message = msg]
    IN IF _is_transient_error(msg)
       THEN LET r == retry_job(failed, act)
            IN [job |-> r.job, notify |-> r.notify]
       ELSE [job |-> [failed EXCEPT !.completed_date = now], notify |-> TRUE]

\* _notify_admin_failure without the test of email_notifications_enabled
_notify_admin_failure_ungated(j, invoked) ==
    IF invoked THEN Append(mailed, j) ELSE mailed

\* _notify_admin_failure of job j when `invoked` (one administrator with an
\* e-mail address exists): the mail log afterwards
_notify_admin_failure(j, invoked) ==
    IF invoked /\ cfg.email_enabled THEN Append(mailed, j) ELSE mailed

\* ------------------------------------------------------------- ordering
\* order='submitted_date asc, priority desc, id asc'
Before(js, a, b) ==
    \/ js[a].submitted_date < js[b].submitted_date
    \/ /\ js[a].submitted_date = js[b].submitted_date
       /\ \/ js[a].priority > js[b].priority
          \/ js[a].priority = js[b].priority /\ a < b

RECURSIVE SortIds(_, _)
SortIds(js, S) ==
    IF S = {} THEN <<>>
    ELSE LET first == CHOOSE a \in S : \A b \in S \ {a} : Before(js, a, b)
         IN <<first>> \o SortIds(js, S \ {first})

\* search([('printer_id', '=', p), ('state', '=', 'queued')], order=...)
QueuedOf(js, p) ==
    SortIds(js, {j \in 1..Len(js) : js[j].printer_id = p /\ js[j].state = "queued"})

\* a loop over the work list that retries a job at once when its
\* process_job fails
RECURSIVE ProcessAll_retrying(_, _, _)
ProcessAll_retrying(run, ids, act) ==
    IF ids = <<>> THEN run
    ELSE LET j == Head(ids)
             r == process_job(run.js[j], act)
             again == IF r.ret THEN r ELSE retry_job(r.job, act)
         IN ProcessAll_retrying([js |-> [run.js EXCEPT ![j] = again.job],
                                 processed |-> run.processed + (IF again.ret THEN 1 ELSE 0),
                                 failed |-> run.failed + (IF again.ret THEN 0 ELSE 1)],
                                Tail(ids), act)

\* for job in queued_jobs: success = job.process_job(), counted in
\* processed_count / failed_count
RECURSIVE ProcessAll(_, _, _)
ProcessAll(run, ids, act) ==
    IF ids = <<>> THEN run
    ELSE LET j == Head(ids)
             r == process_job(run.js[j], act)
         IN ProcessAll([js |-> [run.js EXCEPT ![j] = r.job],
                        processed |-> run.processed + (IF r.ret THEN 1 ELSE 0),
                        failed |-> run.failed + (IF r.ret THEN 0 ELSE 1)],
                       Tail(ids), act)

SeqToSet(s) == {s[i] : i \in 1..Len(s)}

\* recordset filter: the members of ids that satisfy Keep, in order
RECURSIVE Filtered(_, _)
Filtered(ids, keep) ==
    IF ids = <<>> THEN <<>>
    ELSE IF Head(ids) \in keep THEN <<Head(ids)>> \o Filtered(Tail(ids), keep)
    ELSE Filtered(Tail(ids), keep)

\* the separator appended after each label of a batch
Separator(fmt) ==
    IF fmt = "zpl" THEN <<"NL">>
    ELSE IF fmt = "escpos" THEN <<"CUT">>
    ELSE <<>>

\* label_jobs.sorted(key=lambda j: j.submitted_date): a stable sort
RECURSIVE SortedBySubmitted(_, _)
SortedBySubmitted(js, ids) ==
    IF ids = <<>> THEN <<>>
    ELSE LET m == CHOOSE i \in 1..Len(ids) :
                    /\ \A k \in 1..Len(ids) : js[ids[i]].submitted_date <= js[ids[k]].submitted_date
                    /\ \A k \in 1..(i - 1) : js[ids[k]].submitted_date > js[ids[i]].submitted_date
         IN <<ids[m]>> \o SortedBySubmitted(js, SubSeq(ids, 1, m - 1) \o SubSeq(ids, m + 1, Len(ids)))

RECURSIVE CombinedData(_, _, _)
CombinedData(js, ids, fmt) ==
    IF ids = <<>> THEN <<>>
    ELSE (IF js[Head(ids)].data # <<>> THEN js[Head(ids)].data \o Separator(fmt) ELSE <<>>)
         \o CombinedData(js, Tail(ids), fmt)

MaxOf(S) == CHOOSE m \in S : \A x \in S : x <= m

\* the key function of label_jobs.sorted compares submitted_date values: an
\* unset date reads False, and Python cannot order False and a datetime
Unsortable(js, ids) ==
    \E a, b \in SeqToSet(ids) : js[a].submitted_date = 0 /\ js[b].submitted_date # 0

\* batch_label_jobs without the test that all jobs have one printer
batch_label_jobs_any_printer(js, ids, seqno) ==
    LET printers == {js[ids[i]].printer_id : i \in 1..Len(ids)}
        labels == Filtered(ids, {j \in SeqToSet(ids) : js[j].document_type \in label_types})
        first == js[labels[1]]
        batch_format == first.data_format
        batch == [ name |-> <<"label_batch", printer_name(first.printer_id), seqno>>,
                   document_type |-> "label_batch",
                   printer_id |-> first.printer_id,
                   state |-> "draft",
                   data |-> CombinedData(js, SortedBySubmitted(js, labels), batch_format),
                   data_format |-> batch_format,
                   copies |-> 1,
                   priority |-> MaxOf({js[j].priority : j \in SeqToSet(labels)}),
                   error_message |-> <<>>,
                   retry_count |-> 0,
                   submitted_date |-> 0,
                   completed_date |-> 0,
                   parent_id |-> labels[1] ]
        cancelled == [j \in 1..Len(js) |->
                        IF j \in SeqToSet(labels)
                        THEN [js[j] EXCEPT !.state = "cancelled",
                                           !.error_message = MsgBatched("label_batch",
                                               printer_name(first.printer_id), seqno),
                                           !.completed_date = now]
                        ELSE js[j]]
    IN IF ids = <<>> THEN [js |-> js, out |-> "ValidationError", batch |-> 0]
       ELSE IF Len(ids) = 1 THEN [js |-> js, out |-> "unchanged", batch |-> 0]
       ELSE IF labels = <<>> THEN [js |-> js, out |-> "ValidationError", batch |-> 0]
       ELSE IF Unsortable(js, labels) THEN [js |-> js, out |-> "TypeError", batch |-> 0]
       ELSE [js |-> Append(cancelled, batch), out |-> "batch", batch |-> Len(js) + 1]

\* batch_label_jobs(label_jobs) on the table js, the next sequence value
\* being seqno: the table afterwards, the outcome ("ValidationError",
\* "TypeError": raised by the sort, before anything is written, "unchanged":
\* the single job is returned, "batch": a batch job was created) and the id
\* of the batch job
batch_label_jobs(js, ids, seqno) ==
    LET printers == {js[ids[i]].printer_id : i \in 1..Len(ids)}
        labels == Filtered(ids, {j \in SeqToSet(ids) : js[j].document_type \in label_types})
        first == js[labels[1]]
        batch_format == first.data_format
        batch == [ name |-> <<"label_batch", printer_name(first.printer_id), seqno>>,
                   document_type |-> "label_batch",
                   printer_id |-> first.printer_id,
                   state |-> "draft",
                   data |-> CombinedData(js, SortedBySubmitted(js, labels), batch_format),
                   data_format |-> batch_format,
                   copies |-> 1,
                   priority |-> MaxOf({js[j].priority : j \in SeqToSet(labels)}),
                   error_message |-> <<>>,
                   retry_count |-> 0,
                   submitted_date |-> 0,
                   completed_date |-> 0,
                   parent_id |-> labels[1] ]
        cancelled == [j \in 1..Len(js) |->
                        IF j \in SeqToSet(labels)
                        THEN [js[j] EXCEPT !.state = "cancelled",
                                           !.error_message = MsgBatched("label_batch",
                                               printer_name(first.printer_id), seqno),
                                           !.completed_date = now]
                        ELSE js[j]]
    IN IF ids = <<>> THEN [js |-> js, out |-> "ValidationError", batch |-> 0]
       ELSE IF Len(ids) = 1 THEN [js |-> js, out |-> "unchanged", batch |-> 0]
       ELSE IF Cardinality(printers) > 1 THEN [js |-> js, out |-> "ValidationError", batch |-> 0]
       ELSE IF labels = <<>> THEN [js |-> js, out |-> "ValidationError", batch |-> 0]
       ELSE IF Unsortable(js, labels) THEN [js |-> js, out |-> "TypeError", batch |-> 0]
       ELSE [js |-> Append(cancelled, batch), out |-> "batch", batch |-> Len(js) + 1]

\* search([('active', '=', True)], order='priority desc, id')
RECURSIVE SortPrinters(_)
SortPrinters(S) ==
    IF S = {} THEN <<>>
    ELSE LET first == CHOOSE a \in S : \A b \in S \ {a} :
                          \/ printer_priority(a) > printer_priority(b)
                          \/ printer_priority(a) = printer_priority(b) /\ a < b
         IN <<first>> \o SortPrinters(S \ {first})

\* the recordset the loop "for job in queued_jobs" of process_queued_jobs
\* runs over for printer p: the queued jobs in search order, or, after
\* batching, (queued_jobs - label_jobs) | batch_job
QueueWork(run, p) ==
    LET queued_jobs == QueuedOf(run.js, p)
        label_jobs == Filtered(queued_jobs,
                          {j \in SeqToSet(queued_jobs) : run.js[j].document_type \in label_types})
        b == batch_label_jobs(run.js, label_jobs, run.seqno)
    IN IF printer_type(p) = "label" /\ Len(label_jobs) > 1 /\ b.out = "batch"
       THEN Filtered(queued_jobs, SeqToSet(queued_jobs) \ SeqToSet(label_jobs))
            \o <<b.batch>>
       ELSE queued_jobs

\* the body of the loop of process_queued_jobs for one printer
QueueRunPrinter(run, p, act) ==
    LET queued_jobs == QueuedOf(run.js, p)
        label_jobs == Filtered(queued_jobs,
                          {j \in SeqToSet(queued_jobs) : run.js[j].document_type \in label_types})
        b == batch_label_jobs(run.js, label_jobs, run.seqno)
        batched == printer_type(p) = "label" /\ Len(label_jobs) > 1 /\ b.out = "batch"
        work == QueueWork(run, p)
        done == ProcessAll([js |-> IF batched THEN b.js ELSE run.js,
                            processed |-> run.processed, failed |-> run.failed], work, act)
    IN IF queued_jobs = <<>> THEN run
       ELSE [js |-> done.js, processed |-> done.processed, failed |-> done.failed,
             seqno |-> IF batched THEN next_by_code(run.seqno) ELSE run.seqno]

RECURSIVE QueueRun(_, _, _)
QueueRun(run, ps, act) ==
    IF ps = <<>> THEN run
    ELSE QueueRun(QueueRunPrinter(run, Head(ps), act), Tail(ps), act)

\* process_queued_jobs searching all printers, the inactive ones included
process_queued_jobs_all_printers(js, act, seqno) ==
    QueueRun([js |-> js, processed |-> 0, failed |-> 0, seqno |-> seqno],
             SortPrinters(Printers), act)

\* process_queued_jobs: the table, the counters of the summary and the
\* sequence value afterwards
process_queued_jobs_run(js, act, seqno) ==
    QueueRun([js |-> js, processed |-> 0, failed |-> 0, seqno |-> seqno],
             SortPrinters({p \in Printers : act[p]}), act)

\* ----------------------------------------------------- printer selection
\* A row of the qz.printer table for selection.  location_id 0 and
\* department "" are unset fields; the row's name sorts as its id does.
PriorityValues == {0, 20000}

PrinterRows ==
    [ printer_type : {"receipt", "label"},
      is_default : BOOLEAN,
      priority : PriorityValues,
      location_id : {0, 1},
      department : {"", "A"},
      active : BOOLEAN ]

\* the requests: printer_type "" , location_id 0 and department "" are the
\* default None of the arguments
SelectRequests == {"", "label"} \X {0, 1, 2} \X {"", "A"}

\* the domain built by get_default_printer
MatchesDomain(row, ptype, location_id, department) ==
    /\ row.active
    /\ ptype # "" => row.printer_type = ptype
    /\ location_id # 0 => row.location_id \in {location_id, 0}
    /\ department # "" => row.department \in {department, ""}

\* self.search(domain) under _order = 'priority desc, name'
RECURSIVE SearchOrder(_, _)
SearchOrder(ps, S) ==
    IF S = {} THEN <<>>
    ELSE LET first == CHOOSE a \in S : \A b \in S \ {a} :
                          \/ ps[a].priority > ps[b].priority
                          \/ ps[a].priority = ps[b].priority /\ a < b
         IN <<first>> \o SearchOrder(ps, S \ {first})

\* a score that counts the priority against the printer
Score_minus_priority(row, location_id, department) ==
    (IF location_id # 0 /\ row.location_id = location_id THEN 1000
     ELSE IF row.location_id = 0 THEN 100 ELSE 0)
    + (IF department # "" /\ row.department = department THEN 500
       ELSE IF row.department = "" THEN 50 ELSE 0)
    + (IF row.is_default THEN 10000 ELSE 0)
    - row.priority

\* the score _select_best_printer gives to a printer
Score(row, location_id, department) ==
    (IF location_id # 0 /\ row.location_id = location_id THEN 1000
     ELSE IF row.location_id = 0 THEN 100 ELSE 0)
    + (IF department # "" /\ row.department = department THEN 500
       ELSE IF row.department = "" THEN 50 ELSE 0)
    + (IF row.is_default THEN 10000 ELSE 0)
    + row.priority

\* _select_best_printer: a single printer is returned as it is; otherwise
\* the list is sorted by score, descending; the sort is stable, so among
\* equal scores the first of the search order is returned
_select_best_printer(ps, printers, location_id, department) ==
    IF printers = <<>> THEN 0
    ELSE IF Len(printers) = 1 THEN printers[1]
    ELSE LET best == CHOOSE i \in 1..Len(printers) :
                    /\ \A k \in 1..Len(printers) :
                          Score(ps[printers[k]], location_id, department)
                              <= Score(ps[printers[i]], location_id, department)
                    /\ \A k \in 1..(i - 1) :
                          Score(ps[printers[k]], location_id, department)
                              < Score(ps[printers[i]], location_id, department)
         IN printers[best]

\* the printers that pass the domain of get_default_printer
Candidates(ps, ptype, location_id, department) ==
    {i \in 1..Len(ps) : MatchesDomain(ps[i], ptype, location_id, department)}

\* get_default_printer on the table ps: the id of the printer returned, 0
\* for False
get_default_printer(ps, ptype, location_id, department) ==
    LET printers == SearchOrder(ps, Candidates(ps, ptype, location_id, department))
    IN IF printers = <<>> THEN 0
       ELSE _select_best_printer(ps, printers, location_id, department)

\* qz.print.service.get_printer_for_type: the call is handed to
\* get_default_printer and its result returned
get_printer_for_type(ps, document_type, location, department) ==
    get_default_printer(ps, document_type, location, department)

\* -------------------------------------------------------------- actions
\* qz.print.job.create by a client (print service, controller)
CreateJob(doc, p, fmt, limit) ==
    /\ Len(jobs) < limit
    /\ jobs' = Append(jobs, NewJob(doc, p, fmt, <<ToString(sequence)>>, 1, 5, 0))
    /\ sequence' = next_by_code(sequence)
    /\ UNCHANGED <<active, cfg, now, mailed, workers, pool, chosen, created_printers>>

SubmitJob(j) ==
    /\ jobs' = [jobs EXCEPT ![j] = submit_job(jobs[j], active)]
    /\ UNCHANGED <<active, cfg, now, sequence, mailed, workers, pool, chosen, created_printers>>

ProcessJob(j) ==
    LET r == process_job(jobs[j], active)
    IN /\ jobs' = [jobs EXCEPT ![j] = r.job]
       /\ UNCHANGED <<active, cfg, now, sequence, mailed, workers, pool, chosen, created_printers>>

RetryJob(j) ==
    LET r == retry_job(jobs[j], active)
    IN /\ Len(r.job.error_message) <= MaxErrLen
       /\ jobs' = [jobs EXCEPT ![j] = r.job]
       /\ mailed' = _notify_admin_failure(j, r.notify)
       /\ Len(mailed') <= MaxMails
       /\ UNCHANGED <<active, cfg, now, sequence, workers, pool, chosen, created_printers>>

CancelJob(j) ==
    /\ jobs' = [jobs EXCEPT ![j] = cancel_job(jobs[j]).job]
    /\ UNCHANGED <<active, cfg, now, sequence, mailed, workers, pool, chosen, created_printers>>

MarkCompleted(j) ==
    /\ jobs' = [jobs EXCEPT ![j] = mark_completed(jobs[j])]
    /\ UNCHANGED <<active, cfg, now, sequence, mailed, workers, pool, chosen, created_printers>>

MarkFailed(j, text) ==
    LET r == mark_failed(jobs[j], MsgSink(text), active)
    IN /\ Len(r.job.error_message) <= MaxErrLen
       /\ jobs' = [jobs EXCEPT ![j] = r.job]
       /\ mailed' = _notify_admin_failure(j, r.notify)
       /\ Len(mailed') <= MaxMails
       /\ UNCHANGED <<active, cfg, now, sequence, workers, pool, chosen, created_printers>>

\* the recordset of the jobs S, in id order
RECURSIVE AscIds(_)
AscIds(S) ==
    IF S = {} THEN <<>>
    ELSE LET least == CHOOSE a \in S : \A b \in S : a <= b
         IN <<least>> \o AscIds(S \ {least})

\* batch_label_jobs called by a client on the recordset of the jobs S
BatchLabelJobs(S) ==
    LET b == batch_label_jobs(jobs, AscIds(S), sequence)
    IN /\ S # {}
       /\ Len(b.js) <= MaxJobs
       /\ jobs' = b.js
       /\ sequence' = IF b.out = "batch" THEN next_by_code(sequence) ELSE sequence
       /\ UNCHANGED <<active, cfg, now, mailed, workers, pool, chosen, created_printers>>

\* an activation drain that processes the oldest queued job only
DrainOldestOnly(p, act) ==
    ProcessAll([js |-> jobs, processed |-> 0, failed |-> 0],
               IF QueuedOf(jobs, p) = <<>> THEN <<>> ELSE <<Head(QueuedOf(jobs, p))>>, act)

\* an activation drain that processes the queued jobs of every printer
DrainEveryPrinter(p, act) ==
    ProcessAll([js |-> jobs, processed |-> 0, failed |-> 0],
               SortIds(jobs, {j \in 1..Len(jobs) : jobs[j].state = "queued"}), act)

\* _process_queued_jobs_on_activation for printer p, the printers' activity
\* being act
DrainOnActivation(p, act) ==
    ProcessAll([js |-> jobs, processed |-> 0, failed |-> 0], QueuedOf(jobs, p), act)

\* the jobs after qz.printer.write({'active': val}) on printer p: the drain
\* runs for a printer that was inactive and is written active, after the
\* parent write
write_jobs(p, val) ==
    IF val /\ ~active[p]
    THEN DrainOnActivation(p, [active EXCEPT ![p] = val]).js
    ELSE jobs

\* qz.printer.write({'active': val}) on printer p
write(p, val) ==
    LET act == [active EXCEPT ![p] = val]
    IN /\ active' = act
       /\ jobs' = write_jobs(p, val)
       /\ UNCHANGED <<cfg, now, sequence, mailed, workers, pool, chosen, created_printers>>

\* process_queued_jobs on a job table that holds up to `limit` rows
\* afterwards
QueueRunUpTo(limit) ==
    LET run == process_queued_jobs_run(jobs, active, sequence)
    IN /\ Len(run.js) <= limit
       /\ jobs' = run.js
       /\ sequence' = run.seqno
       /\ UNCHANGED <<active, cfg, now, mailed, workers, pool, chosen, created_printers>>

\* the scheduled action (cron) runs process_queued_jobs
process_queued_jobs ==
    LET run == process_queued_jobs_run(jobs, active, sequence)
    IN /\ Len(run.js) <= MaxJobs
       /\ jobs' = run.js
       /\ sequence' = run.seqno
       /\ UNCHANGED <<active, cfg, now, mailed, workers, pool, chosen, created_printers>>

\* time passes between two requests
Tick ==
    /\ now < MaxClock
    /\ now' = now + 1
    /\ UNCHANGED <<jobs, active, cfg, sequence, mailed, workers, pool, chosen, created_printers>>

Init ==
    /\ jobs = <<>>
    /\ active \in [Printers -> BOOLEAN]
    /\ cfg \in [retry_enabled : BOOLEAN, max_retries : {0, MaxRetryCfg}, email_enabled : {FALSE}]
    /\ now = 1
    /\ sequence = 1
    /\ mailed = <<>>
    /\ workers = [w \in Workers |-> IdleWorker]
    /\ pool = <<>>
    /\ chosen = 0
    /\ created_printers = {}

Next ==
    \/ \E i \in JobInputs : CreateJob(i[1], i[2], i[3], MaxCreated)
    \/ \E j \in JobIds : SubmitJob(j)
    \/ \E j \in JobIds : ProcessJob(j)
    \/ \E j \in JobIds : RetryJob(j)
    \/ \E j \in JobIds : CancelJob(j)
    \/ \E j \in JobIds : MarkCompleted(j)
    \/ \E j \in JobIds, text \in SinkErrors : MarkFailed(j, text)
    \/ \E p \in Printers, val \in BOOLEAN : write(p, val)

\* the job lifecycle driven by clients, the print sink and printer writes
Spec == Init /\ [][Next]_vars

\* the queue: submissions over time, printer writes and the scheduled run
NextQueue ==
    \/ \E i \in QueueInputs : CreateJob(i[1], i[2], i[3], MaxBacklog)
    \/ \E j \in JobIds : SubmitJob(j)
    \/ \E p \in Printers, val \in BOOLEAN : write(p, val)
    \/ process_queued_jobs
    \/ Tick

\* an empty job table, the default retry configuration
InitQueue ==
    /\ jobs = <<>>
    /\ active \in [Printers -> BOOLEAN]
    /\ cfg = [retry_enabled |-> TRUE, max_retries |-> MaxRetryCfg, email_enabled |-> FALSE]
    /\ now = 1
    /\ sequence = 1
    /\ mailed = <<>>
    /\ workers = [w \in Workers |-> IdleWorker]
    /\ pool = <<>>
    /\ chosen = 0
    /\ created_printers = {}

SpecQueue == InitQueue /\ [][NextQueue]_vars

\* the backlog of offline printers: submissions and printer writes alone
NextDrain ==
    \/ \E i \in QueueInputs : CreateJob(i[1], i[2], i[3], MaxBacklog)
    \/ \E j \in JobIds : SubmitJob(j)
    \/ \E p \in Printers, val \in BOOLEAN : write(p, val)

SpecDrain == InitQueue /\ [][NextDrain]_vars

\* one printer's queue over time: submissions at different times and the
\* scheduled run
NextFifo ==
    \/ \E i \in FifoInputs : CreateJob(i[1], i[2], i[3], MaxFifo)
    \/ \E j \in JobIds : SubmitJob(j)
    \/ QueueRunUpTo(MaxFifo + 1)
    \/ Tick

SpecFifo == InitQueue /\ [][NextFifo]_vars

\* the controller's resubmit_job on job j: a new job with the parameters of
\* j is created and submitted
ResubmitJob(j) ==
    /\ Len(jobs) < MaxJobs
    /\ jobs' = Append(jobs, submit_job(NewJob(jobs[j].document_type, jobs[j].printer_id,
                                              jobs[j].data_format, jobs[j].data,
                                              jobs[j].copies, jobs[j].priority,
                                              jobs[j].parent_id), active))
    /\ sequence' = next_by_code(sequence)
    /\ UNCHANGED <<active, cfg, now, mailed, workers, pool, chosen, created_printers>>

\* an empty job table in a database with or without the sequence
\* 'qz.print.job'
InitNames ==
    /\ jobs = <<>>
    /\ active \in [Printers -> BOOLEAN]
    /\ cfg = [retry_enabled |-> TRUE, max_retries |-> MaxRetryCfg, email_enabled |-> FALSE]
    /\ now = 1
    /\ sequence \in {0, 1}
    /\ mailed = <<>>
    /\ workers = [w \in Workers |-> IdleWorker]
    /\ pool = <<>>
    /\ chosen = 0
    /\ created_printers = {}

\* the ways a job record comes to exist: create, batching and resubmission
NextNames ==
    \/ \E i \in JobInputs : CreateJob(i[1], i[2], i[3], MaxBacklog)
    \/ \E j \in JobIds : SubmitJob(j)
    \/ \E S \in SUBSET JobIds : BatchLabelJobs(S)
    \/ \E j \in JobIds : ResubmitJob(j)

SpecNames == InitNames /\ [][NextNames]_vars

\* the values clients pass for copies, and for priority and retry_count
ValuesOf(field) == IF field = "copies" THEN {0, 1, 2} ELSE {-1, 0, 1}

\* create by a client that gives copies and priority; the sequence value
\* drawn for the name is used up by a create that raises too
CreateWith(doc, p, fmt, copies, prio, limit) ==
    LET r == create(jobs, doc, p, fmt, copies, prio)
    IN /\ Len(jobs) < limit
       /\ sequence <= MaxJobs
       /\ jobs' = r.js
       /\ sequence' = next_by_code(sequence)
       /\ UNCHANGED <<active, cfg, now, mailed, workers, pool, chosen, created_printers>>

\* write({field: value}) on job j by a client
WriteValue(j, field, value) ==
    /\ jobs' = write_value(jobs, j, field, value).js
    /\ UNCHANGED <<active, cfg, now, sequence, mailed, workers, pool, chosen, created_printers>>

\* the values of a job: what clients create and write, and the failures that
\* count retries
NextValues ==
    \/ \E i \in JobInputs, copies \in ValuesOf("copies"), prio \in ValuesOf("priority") :
           CreateWith(i[1], i[2], i[3], copies, prio, MaxCreated)
    \/ \E j \in JobIds, field \in CheckedFields : \E value \in ValuesOf(field) :
           WriteValue(j, field, value)
    \/ \E j \in JobIds, text \in SinkErrors : MarkFailed(j, text)

\* an empty job table, every printer active
InitValues ==
    /\ jobs = <<>>
    /\ active = [p \in Printers |-> TRUE]
    /\ cfg = [retry_enabled |-> TRUE, max_retries |-> MaxRetryCfg, email_enabled |-> FALSE]
    /\ now = 1
    /\ sequence = 1
    /\ mailed = <<>>
    /\ workers = [w \in Workers |-> IdleWorker]
    /\ pool = <<>>
    /\ chosen = 0
    /\ created_printers = {}

SpecValues == InitValues /\ [][NextValues]_vars

\* an empty job table, retries enabled, e-mail notification on or off
InitNotify ==
    /\ jobs = <<>>
    /\ active \in [Printers -> BOOLEAN]
    /\ cfg \in [retry_enabled : {TRUE}, max_retries : {0, MaxRetryCfg}, email_enabled : BOOLEAN]
    /\ now = 1
    /\ sequence = 1
    /\ mailed = <<>>
    /\ workers = [w \in Workers |-> IdleWorker]
    /\ pool = <<>>
    /\ chosen = 0
    /\ created_printers = {}

\* the failures of a job: processing, the sink's reports and retries
NextNotify ==
    \/ \E i \in JobInputs : CreateJob(i[1], i[2], i[3], MaxCreated)
    \/ \E j \in JobIds : SubmitJob(j)
    \/ \E j \in JobIds : ProcessJob(j)
    \/ \E j \in JobIds : RetryJob(j)
    \/ \E j \in JobIds, text \in SinkErrors : MarkFailed(j, text)

SpecNotify == InitNotify /\ [][NextNotify]_vars

\* batching on request over labels and receipts of one printer, in one or
\* two copies
NextBatchMixed ==
    \/ \E i \in FifoInputs, copies \in {1, 2} :
           CreateWith(i[1], i[2], i[3], copies, 5, MaxBacklog)
    \/ \E j \in JobIds : SubmitJob(j)
    \/ \E S \in SUBSET JobIds : BatchLabelJobs(S)

SpecBatchMixed == InitQueue /\ [][NextBatchMixed]_vars

\* self.search([('system_name', '=', sysname)], limit=1) on qz.printer:
\* the model has a field `active` and the search sets no active_test in its
\* context, so the ORM leaves the inactive records out.  TRUE when a record
\* is found.
SearchBySystemName(sysname, act, created) ==
    \/ \E p \in Printers : act[p] /\ system_name(p) = sysname
    \/ sysname \in created

\* process_discovered_printers([sysname]): the printers' activity, the
\* records created by discovery and the job table afterwards.  A record
\* found is written active, which it is already; otherwise a record named
\* sysname is created, and the constraint UNIQUE(name) makes the create
\* raise when a printer of that name exists, the request being rolled back.
process_discovered_printers(sysname) ==
    IF SearchBySystemName(sysname, active, created_printers)
    THEN [out |-> "updated", active |-> active, created |-> created_printers, js |-> jobs]
    ELSE IF \E p \in Printers : printer_name(p) = sysname
    THEN [out |-> "IntegrityError", active |-> active, created |-> created_printers,
          js |-> jobs]
    ELSE [out |-> "created", active |-> active,
          created |-> created_printers \cup {sysname}, js |-> jobs]

\* the printer names QZ Tray reports
DiscoveredNames == {system_name(p) : p \in Printers}

\* the frontend hands the list of one discovered printer to
\* process_discovered_printers
ProcessDiscoveredPrinters(name) ==
    LET r == process_discovered_printers(name)
    IN /\ active' = r.active
       /\ created_printers' = r.created
       /\ jobs' = r.js
       /\ UNCHANGED <<cfg, now, sequence, mailed, workers, pool, chosen>>

\* discovery between submissions and printer writes
NextDiscovery ==
    \/ \E i \in QueueInputs : CreateJob(i[1], i[2], i[3], MaxBacklog)
    \/ \E j \in JobIds : SubmitJob(j)
    \/ \E p \in Printers, val \in BOOLEAN : write(p, val)
    \/ \E name \in DiscoveredNames : ProcessDiscoveredPrinters(name)

SpecDiscovery == InitQueue /\ [][NextDiscovery]_vars

\* the scheduled run between submissions and printer writes, at one time
NextCron ==
    \/ \E i \in QueueInputs : CreateJob(i[1], i[2], i[3], MaxBacklog)
    \/ \E j \in JobIds : SubmitJob(j)
    \/ \E p \in Printers, val \in BOOLEAN : write(p, val)
    \/ process_queued_jobs

SpecCron == InitQueue /\ [][NextCron]_vars

\* the job lifecycle together with the scheduled run (the runs that create
\* no further job record), under the default retry configuration
NextRetry ==
    \/ Next
    \/ QueueRunUpTo(MaxCreated)

SpecRetry == InitQueue /\ [][NextRetry]_vars

\* get_printer_for_type / get_default_printer called by a client
GetDefaultPrinter(ptype, location_id, department) ==
    /\ chosen' = get_default_printer(pool, ptype, location_id, department)
    /\ UNCHANGED <<jobs, active, cfg, now, sequence, mailed, workers, pool, created_printers>>

\* a printer table of MaxPool rows; no jobs
InitSelect ==
    /\ jobs = <<>>
    /\ active = [p \in Printers |-> TRUE]
    /\ cfg = [retry_enabled |-> TRUE, max_retries |-> MaxRetryCfg, email_enabled |-> FALSE]
    /\ now = 1
    /\ sequence = 1
    /\ mailed = <<>>
    /\ workers = [w \in Workers |-> IdleWorker]
    /\ pool \in [1..MaxPool -> PrinterRows]
    /\ chosen = 0
    /\ created_printers = {}

NextSelect ==
    \E r \in SelectRequests : GetDefaultPrinter(r[1], r[2], r[3])

\* printer selection over every printer table of MaxPool rows
SpecSelect == InitSelect /\ [][NextSelect]_vars

\* batching on request: submissions and calls of batch_label_jobs
NextBatch ==
    \/ \E i \in QueueInputs : CreateJob(i[1], i[2], i[3], MaxBacklog)
    \/ \E j \in JobIds : SubmitJob(j)
    \/ \E S \in SUBSET JobIds : BatchLabelJobs(S)

SpecBatch == InitQueue /\ [][NextBatch]_vars

\* ------------------------------------------------ interleaved handlers
\* Two requests run at the same time.  The source takes no lock and makes
\* no conditional update: a handler's searches, its test of a job's state
\* and its writes are separate steps on the shared tables, and the steps of
\* two handlers interleave.  won is the set of jobs for which the request's
\* process_job returned True.
LabelsOf(js, ids) ==
    Filtered(ids, {j \in SeqToSet(ids) : js[j].document_type \in label_types})

\* process_queued_jobs starts: the search for the active printers
StartCron(w) ==
    /\ workers[w].pc = "idle"
    /\ workers' = [workers EXCEPT ![w] =
          [IdleWorker EXCEPT !.kind = "cron", !.pc = "printer",
                             !.ps = SortPrinters({p \in Printers : active[p]})]]
    /\ UNCHANGED <<jobs, active, cfg, now, sequence, mailed, pool, chosen, created_printers>>

\* process_queued_jobs, top of the loop over the printers: the search for
\* the printer's queued jobs, and the choice to batch
CronSearch(w) ==
    LET me == workers[w]
        p == Head(me.ps)
        queued_jobs == QueuedOf(jobs, p)
    IN /\ me.pc = "printer"
       /\ workers' = [workers EXCEPT ![w] =
             IF me.ps = <<>> THEN [me EXCEPT !.pc = "done", !.printer = 0]
             ELSE [me EXCEPT !.printer = p, !.ps = Tail(me.ps), !.todo = queued_jobs,
                             !.pc = IF queued_jobs = <<>> THEN "printer"
                                    ELSE IF printer_type(p) = "label"
                                            /\ Len(LabelsOf(jobs, queued_jobs)) > 1
                                         THEN "batch"
                                    ELSE "job"]]
       /\ UNCHANGED <<jobs, active, cfg, now, sequence, mailed, pool, chosen, created_printers>>

\* process_queued_jobs: batch_label_jobs on the label jobs found by the
\* search, and the batch job substituted into the work list
CronBatch(w) ==
    LET me == workers[w]
        label_jobs == LabelsOf(jobs, me.todo)
        b == batch_label_jobs(jobs, label_jobs, sequence)
    IN /\ me.pc = "batch"
       /\ Len(b.js) <= MaxBacklog + Cardinality(Workers)
       /\ jobs' = b.js
       /\ sequence' = IF b.out = "batch" THEN next_by_code(sequence) ELSE sequence
       /\ workers' = [workers EXCEPT ![w] =
             [me EXCEPT !.pc = "job",
                        !.todo = IF b.out = "batch"
                                 THEN Filtered(me.todo, SeqToSet(me.todo) \ SeqToSet(label_jobs))
                                      \o <<b.batch>>
                                 ELSE me.todo]]
       /\ UNCHANGED <<active, cfg, now, mailed, pool, chosen, created_printers>>

\* qz.printer.write({'active': True}) starts: the test `not printer.active`
StartActivation(w, p) ==
    /\ workers[w].pc = "idle"
    /\ ~active[p]
    /\ workers' = [workers EXCEPT ![w] =
          [IdleWorker EXCEPT !.kind = "activation", !.pc = "write", !.printer = p]]
    /\ UNCHANGED <<jobs, active, cfg, now, sequence, mailed, pool, chosen, created_printers>>

\* qz.printer.write: super().write, then the search of
\* _process_queued_jobs_on_activation
ActivationSearch(w) ==
    LET me == workers[w]
    IN /\ me.pc = "write"
       /\ active' = [active EXCEPT ![me.printer] = TRUE]
       /\ workers' = [workers EXCEPT ![w] =
             [me EXCEPT !.pc = "job", !.todo = QueuedOf(jobs, me.printer)]]
       /\ UNCHANGED <<jobs, cfg, now, sequence, mailed, pool, chosen, created_printers>>

\* a client calls process_job on job j
StartProcess(w, j) ==
    /\ workers[w].pc = "idle"
    /\ workers' = [workers EXCEPT ![w] =
          [IdleWorker EXCEPT !.kind = "process", !.pc = "job", !.todo = <<j>>,
                             !.printer = jobs[j].printer_id]]
    /\ UNCHANGED <<jobs, active, cfg, now, sequence, mailed, pool, chosen, created_printers>>

\* the next job of the work list, up to the test of its state in
\* process_job; the scheduled run first skips a job whose printer is inactive
TakeJob(w) ==
    LET me == workers[w]
        j == Head(me.todo)
    IN /\ me.pc = "job"
       /\ workers' = [workers EXCEPT ![w] =
             IF me.todo = <<>>
             THEN [me EXCEPT !.pc = IF me.kind = "cron" THEN "printer" ELSE "done",
                             !.cur = 0,
                             !.printer = IF me.kind = "cron" THEN me.printer ELSE 0]
             ELSE IF me.kind = "cron" /\ ~active[jobs[j].printer_id]
             THEN [me EXCEPT !.todo = Tail(me.todo)]
             ELSE IF jobs[j].state \notin {"queued", "failed"}
             THEN [me EXCEPT !.todo = Tail(me.todo)]
             ELSE [me EXCEPT !.todo = Tail(me.todo), !.cur = j, !.pc = "claim"]]
       /\ UNCHANGED <<jobs, active, cfg, now, sequence, mailed, pool, chosen, created_printers>>

\* process_job after the test of the state: the write of printing, the
\* validation, and the value returned
ClaimJob(w) ==
    LET me == workers[w]
        r == ProcessClaimed(jobs[me.cur], active)
    IN /\ me.pc = "claim"
       /\ jobs' = [jobs EXCEPT ![me.cur] = r.job]
       /\ workers' = [workers EXCEPT ![w] =
             [me EXCEPT !.pc = "job", !.cur = 0,
                        !.won = IF r.ret THEN me.won \cup {me.cur} ELSE me.won]]
       /\ UNCHANGED <<active, cfg, now, sequence, mailed, pool, chosen, created_printers>>

\* a job as submit_job leaves it: queued, with the offline note when its
\* printer is inactive
QueuedJob(i, id, act) ==
    [ name |-> <<i[1], printer_name(i[2]), id>>,
      document_type |-> i[1],
      printer_id |-> i[2],
      state |-> "queued",
      data |-> <<ToString(id)>>,
      data_format |-> i[3],
      copies |-> 1,
      priority |-> 5,
      error_message |-> IF act[i[2]] THEN <<>> ELSE MsgOffline(i[2]),
      retry_count |-> 0,
      submitted_date |-> 1,
      completed_date |-> 0,
      parent_id |-> 0 ]

\* a backlog of MaxBacklog queued jobs, default retry configuration
InitConc ==
    /\ active \in [Printers -> BOOLEAN]
    /\ \E f \in [1..MaxBacklog -> QueueInputs] :
          jobs = [id \in 1..MaxBacklog |-> QueuedJob(f[id], id, active)]
    /\ cfg = [retry_enabled |-> TRUE, max_retries |-> MaxRetryCfg, email_enabled |-> FALSE]
    /\ now = 1
    /\ sequence = MaxBacklog + 1
    /\ mailed = <<>>
    /\ workers = [w \in Workers |-> IdleWorker]
    /\ pool = <<>>
    /\ chosen = 0
    /\ created_printers = {}

NextConc ==
    \/ \E w \in Workers : StartCron(w)
    \/ \E w \in Workers : CronSearch(w)
    \/ \E w \in Workers : CronBatch(w)
    \/ \E w \in Workers, p \in Printers : StartActivation(w, p)
    \/ \E w \in Workers : ActivationSearch(w)
    \/ \E w \in Workers, j \in JobIds : StartProcess(w, j)
    \/ \E w \in Workers : TakeJob(w)
    \/ \E w \in Workers : ClaimJob(w)

SpecConc == InitConc /\ [][NextConc]_vars

\* --------------------------------------------------------------- claims
\* the state of job j changes in this step only along one of `pairs`
Moves(j, pairs) ==
    \/ jobs'[j].state = jobs[j].state
    \/ <<jobs[j].state, jobs'[j].state>> \in pairs

\* the printer of `job` is active and has the capability for its format
PrinterReady(job) == active[job.printer_id] /\ format_supported(job)

\* C1: every change of a job's state made by an operation is one of the
\* documented transitions: draft->queued by submit; queued->printing or
\* queued->failed by process and by the activation drain; printing->completed
\* by mark_completed; printing->failed by mark_failed; failed->queued or
\* failed->printing by retry; draft, queued or failed->cancelled by cancel.
C1_OnlyDocumentedTransitions ==
    [][\A j \in JobIds :
        /\ SubmitJob(j) => Moves(j, {<<"draft", "queued">>})
        /\ ProcessJob(j) => Moves(j, {<<"queued", "printing">>, <<"queued", "failed">>})
        /\ MarkCompleted(j) => Moves(j, {<<"printing", "completed">>})
        /\ (\E text \in SinkErrors : MarkFailed(j, text))
              => Moves(j, {<<"printing", "failed">>})
        /\ RetryJob(j) => Moves(j, {<<"failed", "queued">>, <<"failed", "printing">>})
        /\ CancelJob(j) => Moves(j, {<<"draft", "cancelled">>, <<"queued", "cancelled">>,
                                      <<"failed", "cancelled">>})
        /\ (\E p \in Printers, val \in BOOLEAN : write(p, val))
              => Moves(j, {<<"queued", "printing">>, <<"queued", "failed">>})]_vars

\* C2: completed and cancelled are terminal: a job in one of them keeps its
\* state in every later step.
C2_TerminalStatesStay ==
    [][\A j \in JobIds :
        jobs[j].state \in {"completed", "cancelled"} => jobs'[j].state = jobs[j].state]_vars

\* C3: a job in terminal failure (failed with completed_date set) is never
\* moved back to queued or printing.
C3_TerminalFailureStays ==
    [][\A j \in JobIds :
        (jobs[j].state = "failed" /\ jobs[j].completed_date # 0)
            => jobs'[j].state \notin {"queued", "printing"}]_vars

\* C6: a job that mark_failed (on a printing job), process_job or the
\* activation drain (on a queued job) or retry_job (on a failed job) leaves in
\* state failed has a non-empty error_message and completed_date set.
C6_FailedJobsFinalized ==
    [][\A j \in JobIds :
        (/\ \/ jobs[j].state = "printing" /\ \E text \in SinkErrors : MarkFailed(j, text)
            \/ jobs[j].state = "queued" /\ ProcessJob(j)
            \/ jobs[j].state = "queued" /\ \E p \in Printers : write(p, TRUE)
            \/ jobs[j].state = "failed" /\ RetryJob(j)
         /\ jobs'[j].state = "failed")
            => jobs'[j].error_message # <<>> /\ jobs'[j].completed_date # 0]_vars

\* C7: when a printer's active flag is written from false to true, every
\* queued job of that printer leaves the queued state during that write, and
\* is printing afterwards when the printer supports its data_format.  Stated
\* of the drain that write runs, in every reachable state where the printer
\* is inactive.
C7_ActivationDrainsBacklog ==
    \A p \in Printers :
        ~active[p] =>
            LET after == DrainOnActivation(p, [active EXCEPT ![p] = TRUE]).js
            IN \A j \in JobIds :
                (jobs[j].printer_id = p /\ jobs[j].state = "queued") =>
                    /\ after[j].state # "queued"
                    /\ format_supported(jobs[j]) => after[j].state = "printing"

\* C7 witness: two jobs submitted while their printer was offline are both
\* printing, the printer being active.
C7_Witness ==
    \E j, k \in JobIds :
        /\ j # k
        /\ jobs[j].printer_id = jobs[k].printer_id
        /\ active[jobs[j].printer_id]
        /\ \A x \in {j, k} :
            /\ jobs[x].state = "printing"
            /\ Contains(jobs[x].error_message, "offline")
            /\ jobs[x].retry_count = 0

\* C8: for an active printer that supports the job's format, create leaves
\* the job in draft, submit_job takes it from draft to queued with
\* submitted_date set, process_job from queued to printing, and mark_completed
\* from printing to completed with completed_date set and error_message empty.
\* Stated of each handler's result in every reachable state.
C8_HappyPath ==
    /\ \A i \in JobInputs :
          NewJob(i[1], i[2], i[3], <<ToString(sequence)>>, 1, 5, 0).state = "draft"
    /\ \A j \in JobIds :
          PrinterReady(jobs[j]) =>
            /\ jobs[j].state = "draft" =>
                  LET s == submit_job(jobs[j], active)
                  IN /\ s.state = "queued"
                     /\ s.submitted_date # 0
                     /\ s.error_message = jobs[j].error_message
            /\ jobs[j].state = "queued" =>
                  LET r == process_job(jobs[j], active)
                  IN /\ r.ret
                     /\ r.job.state = "printing"
                     /\ r.job.error_message = jobs[j].error_message
            /\ jobs[j].state = "printing" =>
                  LET c == mark_completed(jobs[j])
                  IN /\ c.state = "completed"
                     /\ c.completed_date # 0
                     /\ c.error_message = <<>>

\* C8 witness: a job that was submitted, never failed and is completed.
C8_Witness ==
    \E j \in JobIds :
        /\ jobs[j].state = "completed"
        /\ jobs[j].submitted_date # 0
        /\ jobs[j].completed_date # 0
        /\ jobs[j].error_message = <<>>
        /\ jobs[j].retry_count = 0
        /\ PrinterReady(jobs[j])

\* the precondition of C9: job j is failed with a transient error, retry is
\* enabled and the limit is not reached
RetryApplies(j) ==
    /\ jobs[j].state = "failed"
    /\ cfg.retry_enabled
    /\ _is_transient_error(jobs[j].error_message)
    /\ jobs[j].retry_count < cfg.max_retries

RetryBounded(before, after) ==
    IF before.retry_count < cfg.max_retries
    THEN /\ after.retry_count = before.retry_count + 1
         /\ ~Contains(after.error_message, "max_retry")
    ELSE /\ after.state = "failed"
         /\ after.completed_date # 0
         /\ Contains(after.error_message, "max_retry")
         /\ after.retry_count = cfg.max_retries

\* C10: with retry enabled, each retry of a job failed with a transient error
\* (retry_job, or the retry that mark_failed makes for a transient message)
\* either adds one to a retry_count below max_retries, or, the count having
\* reached max_retries, leaves the job failed with completed_date set,
\* 'Maximum retry count exceeded' in error_message and retry_count equal to
\* max_retries: after max_retries retries, the next one is terminal.
C10_RetriesBounded ==
    cfg.retry_enabled =>
        \A j \in JobIds :
            /\ (jobs[j].state = "failed" /\ _is_transient_error(jobs[j].error_message))
                  => RetryBounded(jobs[j], retry_job(jobs[j], active).job)
            /\ \A text \in SinkErrors :
                  _is_transient_error(MsgSink(text))
                     => RetryBounded(jobs[j], mark_failed(jobs[j], MsgSink(text), active).job)

\* C10 witness: a job that was retried max_retries >= 1 times and then
\* refused is in terminal failure.
C10_Witness ==
    \E j \in JobIds :
        /\ cfg.max_retries >= 1
        /\ jobs[j].state = "failed"
        /\ jobs[j].completed_date # 0
        /\ Contains(jobs[j].error_message, "max_retry")
        /\ Contains(jobs[j].error_message, "sink")
        /\ jobs[j].retry_count = cfg.max_retries

\* request w is working on the queue of printer p
WorksOn(w, p) ==
    /\ workers[w].pc \in {"batch", "job", "claim"}
    /\ workers[w].kind \in {"cron", "activation"}
    /\ workers[w].printer = p

\* C4: no queued job is claimed twice: of two requests that process the
\* same queued job at the same time, at most one gets True from process_job.
C4_AtomicClaim ==
    \A v, w \in Workers : v # w => workers[v].won \cap workers[w].won = {}

\* no label job is the first constituent of two batch jobs
NoDoubleBatch ==
    \A j, k \in JobIds :
        (/\ j # k
         /\ jobs[j].document_type = "label_batch"
         /\ jobs[k].document_type = "label_batch")
        => jobs[j].parent_id # jobs[k].parent_id

\* C5: at no time do two queue runs (scheduled run or activation drain) work
\* on the queue of the same printer; in particular no two runs batch the same
\* label jobs into two batch jobs.
C5_MutualExclusionPerPrinter ==
    /\ \A v, w \in Workers, p \in Printers : (v # w /\ WorksOn(v, p)) => ~WorksOn(w, p)
    /\ NoDoubleBatch

\* C11: retry_job on a failed job whose error is permanent returns False,
\* leaves retry_count and state as they are, does not process the job again
\* (the error_message is the old one, at most with the note of the exceeded
\* limit appended), and the job has completed_date set afterwards.
C11_PermanentErrorNotRetried ==
    \A j \in JobIds :
        (jobs[j].state = "failed" /\ ~_is_transient_error(jobs[j].error_message)) =>
            LET r == retry_job(jobs[j], active)
            IN /\ ~r.ret
               /\ r.job.retry_count = jobs[j].retry_count
               /\ r.job.state = "failed"
               /\ r.job.error_message \in
                     {jobs[j].error_message, jobs[j].error_message \o MsgMaxRetry}
               /\ r.job.completed_date # 0

\* C11 witness: a job failed with the permanent error 'Paper jam', retry
\* enabled and the limit not reached: the state retry_job finds and leaves.
C11_Witness ==
    \E j \in JobIds :
        /\ cfg.retry_enabled
        /\ jobs[j].state = "failed"
        /\ jobs[j].error_message = MsgSink("Paper jam")
        /\ jobs[j].retry_count < cfg.max_retries
        /\ jobs[j].completed_date # 0
        /\ retry_job(jobs[j], active).job = jobs[j]

\* C12: after mark_failed(error_msg) on a printing job, for every error
\* message (transient or permanent), the job is in state failed and its
\* error_message contains error_msg.
C12_FailureRecorded ==
    \A j \in JobIds, text \in SinkErrors :
        jobs[j].state = "printing" =>
            LET r == mark_failed(jobs[j], MsgSink(text), active).job
            IN /\ r.state = "failed"
               /\ \E i \in 1..Len(r.error_message) : r.error_message[i] = Frag("sink", text, "")

\* the queued label-category jobs of printer p
QueuedLabels(p) ==
    {j \in JobIds : /\ jobs[j].printer_id = p
                    /\ jobs[j].state = "queued"
                    /\ jobs[j].document_type \in label_types}

\* C13: when process_queued_jobs finds two or more queued label-category
\* jobs on an active label printer that supports their format, then on its
\* return the label_batch job made of them is in state printing and is
\* counted in processed.
C13_BatchProcessedByQueueRun ==
    \A p \in Printers :
        (/\ active[p]
         /\ printer_type(p) = "label"
         /\ Cardinality(QueuedLabels(p)) >= 2
         /\ \A j \in QueuedLabels(p) : format_supported(jobs[j]))
        => LET run == process_queued_jobs_run(jobs, active, sequence)
           IN /\ run.processed >= 1
              /\ \E b \in 1..Len(run.js) :
                    /\ run.js[b].document_type = "label_batch"
                    /\ run.js[b].parent_id \in QueuedLabels(p)
                    /\ run.js[b].state = "printing"

\* two or more label-category jobs of one printer
LabelsOfOnePrinter(S) ==
    /\ Cardinality(S) >= 2
    /\ \A j \in S : jobs[j].document_type \in label_types
    /\ \A j, k \in S : jobs[j].printer_id = jobs[k].printer_id

\* C14: batch_label_jobs on n >= 2 label-category jobs of the same printer
\* creates exactly one new job (document_type label_batch, copies 1, priority
\* the maximum of the constituents' priorities, parent_id the first
\* constituent), leaves all n constituents cancelled with an error_message
\* naming the batch job, and deletes no job.
C14_BatchCreatesOneJob ==
    \A S \in SUBSET JobIds :
        LabelsOfOnePrinter(S) =>
            LET b == batch_label_jobs(jobs, AscIds(S), sequence)
                batch == b.js[b.batch]
            IN /\ b.out = "batch"
               /\ Len(b.js) = Len(jobs) + 1
               /\ batch.document_type = "label_batch"
               /\ batch.copies = 1
               /\ batch.priority = MaxOf({jobs[j].priority : j \in S})
               /\ batch.parent_id = AscIds(S)[1]
               /\ \A j \in S :
                     /\ b.js[j].state = "cancelled"
                     /\ b.js[j].error_message =
                           MsgBatched(batch.name[1], batch.name[2], batch.name[3])
               /\ \A j \in JobIds \ S : b.js[j] = jobs[j]

\* C15: batch_label_jobs on jobs that reference two or more different
\* printers raises ValidationError and leaves the store unchanged: no batch
\* job is created and no input job changes.
C15_BatchAcrossPrintersRefused ==
    \A S \in SUBSET JobIds :
        (\E j, k \in S : jobs[j].printer_id # jobs[k].printer_id) =>
            LET b == batch_label_jobs(jobs, AscIds(S), sequence)
            IN /\ b.out = "ValidationError"
               /\ b.js = jobs

\* C15 witness: a queued label job and a queued job of another printer, for
\* which batch_label_jobs raises ValidationError; no batch job exists.
C15_Witness ==
    \E j, k \in JobIds :
        /\ jobs[j].printer_id # jobs[k].printer_id
        /\ jobs[j].state = "queued" /\ jobs[k].state = "queued"
        /\ jobs[j].document_type \in label_types
        /\ batch_label_jobs(jobs, AscIds({j, k}), sequence).out = "ValidationError"
        /\ \A x \in JobIds : jobs[x].document_type # "label_batch"

C17_UnsupportedFormatRaises ==
    \A j \in JobIds :
        (/\ jobs[j].state = "queued"
         /\ active[jobs[j].printer_id]
         /\ ~format_supported(jobs[j]))
        => LET r == process_job(jobs[j], active)
           IN r.raised /\ r.job.state = "failed"

\* C18: cancel_job on a completed or cancelled job is a no-op: it returns
\* False and leaves state, completed_date and error_message as they are;
\* cancel_job on a draft, queued or failed job returns True and leaves it
\* cancelled with completed_date set.
C18_CancelByState ==
    \A j \in JobIds :
        LET r == cancel_job(jobs[j])
        IN /\ jobs[j].state \in {"completed", "cancelled"} =>
                 /\ ~r.ret
                 /\ r.job.state = jobs[j].state
                 /\ r.job.completed_date = jobs[j].completed_date
                 /\ r.job.error_message = jobs[j].error_message
           /\ jobs[j].state \in {"draft", "queued", "failed"} =>
                 /\ r.ret
                 /\ r.job.state = "cancelled"
                 /\ r.job.completed_date # 0

\* C18 witness: a job cancelled while queued, which a further cancel_job
\* refuses.
C18_Witness ==
    \E j \in JobIds :
        /\ jobs[j].state = "cancelled"
        /\ jobs[j].submitted_date # 0
        /\ jobs[j].completed_date # 0
        /\ jobs[j].retry_count = 0
        /\ ~cancel_job(jobs[j]).ret

\* C19: cancel_job on a job in state printing does not cancel it: the job
\* stays in printing.
C19_PrintingNotCancelled ==
    \A j \in JobIds :
        jobs[j].state = "printing" =>
            LET r == cancel_job(jobs[j])
            IN ~r.ret /\ r.job.state = "printing"

\* C20: in printer selection an active candidate with is_default = true is
\* selected over every non-default candidate, for all non-negative priority
\* values and all location and department assignments: when a candidate of
\* the request is a default printer, the printer returned is a default one.
C20_DefaultBeatsNonDefault ==
    \A r \in SelectRequests :
        (\E c \in Candidates(pool, r[1], r[2], r[3]) : pool[c].is_default)
            => pool[get_default_printer(pool, r[1], r[2], r[3])].is_default

\* two rows of the printer table that differ in priority only, a having
\* the higher one
HigherPriorityTwin(a, b) ==
    /\ a # b
    /\ pool[a].priority > pool[b].priority
    /\ [pool[a] EXCEPT !.priority = 0] = [pool[b] EXCEPT !.priority = 0]

\* C21: of two active printers of the requested type that differ only in
\* priority, get_default_printer returns the one with the higher priority:
\* the lower one is never returned, and the higher one is returned when the
\* two are the only printers of the request.
C21_HigherPriorityWins ==
    \A r \in SelectRequests : \A a, b \in Candidates(pool, r[1], r[2], r[3]) :
        HigherPriorityTwin(a, b) =>
            /\ get_default_printer(pool, r[1], r[2], r[3]) # b
            /\ Candidates(pool, r[1], r[2], r[3]) = {a, b}
                   => get_default_printer(pool, r[1], r[2], r[3]) = a

\* a request for label printers has returned the higher of two active label
\* printers that differ in priority only, the lower one being first in the
\* table
C21_Witness ==
    \E a, b \in 1..Len(pool) :
        /\ HigherPriorityTwin(a, b)
        /\ b < a
        /\ pool[a].active
        /\ pool[a].printer_type = "label"
        /\ chosen = a

\* C22: for a request that specifies a location, a non-default printer
\* assigned to that location is selected over a non-default printer without
\* location, whatever their priorities: the printer without location is not
\* the one returned.
C22_LocationBeatsUnassigned ==
    \A r \in SelectRequests : \A a, b \in Candidates(pool, r[1], r[2], r[3]) :
        /\ r[2] # 0
        /\ ~pool[a].is_default /\ pool[a].location_id = r[2]
        /\ ~pool[b].is_default /\ pool[b].location_id = 0
        => get_default_printer(pool, r[1], r[2], r[3]) # b

\* C23: when no active printer passes the filters of a request but an active
\* printer exists, get_printer_for_type and get_default_printer return the
\* active printer of the highest priority; they return none only when no
\* printer is active.
C23_FallbackToActivePrinter ==
    \A r \in SelectRequests :
        LET actives == {i \in 1..Len(pool) : pool[i].active}
            got == get_printer_for_type(pool, r[1], r[2], r[3])
        IN Candidates(pool, r[1], r[2], r[3]) = {} =>
               /\ got = 0 <=> actives = {}
               /\ got # 0 => /\ got \in actives
                             /\ \A i \in actives : pool[i].priority <= pool[got].priority

\* C24: a write that takes printer p from inactive to active leaves every
\* job of another printer as it was (state, retry_count, error_message and
\* dates), and a write of active = true on a printer that is already active
\* changes no job.
C24_ActivationFrame ==
    \A p \in Printers :
        /\ ~active[p] =>
               \A j \in JobIds :
                   jobs[j].printer_id # p => write_jobs(p, TRUE)[j] = jobs[j]
        /\ active[p] => write_jobs(p, TRUE) = jobs

\* a job submitted while its printer was offline is printing, its printer
\* being active, and a job of the other printer, which is inactive, is still
\* queued with its offline note
C24_Witness ==
    \E j, k \in JobIds :
        /\ jobs[j].printer_id # jobs[k].printer_id
        /\ active[jobs[j].printer_id]
        /\ jobs[j].state = "printing"
        /\ Contains(jobs[j].error_message, "offline")
        /\ ~active[jobs[k].printer_id]
        /\ jobs[k].state = "queued"
        /\ Contains(jobs[k].error_message, "offline")
        /\ jobs[k].completed_date = 0

\* the position of job j in the sequence s, 0 when it is not there
PositionIn(s, j) ==
    IF \E i \in 1..Len(s) : s[i] = j THEN CHOOSE i \in 1..Len(s) : s[i] = j ELSE 0

\* in the attempts `work`, which leave the job table `after`, no queued job
\* of printer p is printing unless every queued job of p submitted before it
\* was attempted before it
FifoKept(p, work, after) ==
    \A a, b \in JobIds :
        /\ jobs[a].printer_id = p /\ jobs[a].state = "queued"
        /\ jobs[b].printer_id = p /\ jobs[b].state = "queued"
        /\ jobs[a].submitted_date < jobs[b].submitted_date
        /\ after[b].state = "printing"
        => /\ PositionIn(work, a) # 0
           /\ PositionIn(work, a) < PositionIn(work, b)

\* C25: within one queue run (process_queued_jobs or the activation drain)
\* the queued jobs of a printer are attempted in the order submitted_date
\* ascending, priority descending, id ascending: a job submitted later is not
\* printing after the run unless every job of the printer submitted earlier
\* was attempted before it.
C25_PerPrinterFifo ==
    \A p \in Printers :
        /\ active[p] =>
               FifoKept(p, QueueWork([js |-> jobs, seqno |-> sequence], p),
                        process_queued_jobs_run(jobs, active, sequence).js)
        /\ ~active[p] =>
               FifoKept(p, QueuedOf(jobs, p), write_jobs(p, TRUE))

\* C27: every persisted job, batch jobs and resubmitted jobs included, has a
\* non-empty name, built from document type, printer name and a sequence
\* value, that differs from the name of every other job.
C27_NamesUnique ==
    \A j \in JobIds :
        /\ jobs[j].name # <<>>
        /\ jobs[j].name[1] = jobs[j].document_type
        /\ jobs[j].name[2] = printer_name(jobs[j].printer_id)
        /\ \A k \in JobIds : k # j => jobs[k].name # jobs[j].name

\* C26: mark_completed on a job that is already completed leaves it
\* completed, with completed_date set and error_message empty, and a second
\* call changes nothing of what the first call left.
C26_MarkCompletedIdempotent ==
    \A j \in JobIds :
        /\ jobs[j].state = "completed" =>
               /\ mark_completed(jobs[j]).state = "completed"
               /\ mark_completed(jobs[j]).completed_date # 0
               /\ mark_completed(jobs[j]).error_message = <<>>
        /\ mark_completed(mark_completed(jobs[j])) = mark_completed(jobs[j])

\* a job that failed with a message has been marked completed: it is
\* completed without message, and marking it again leaves the record as it is
C26_Witness ==
    \E j \in JobIds :
        /\ jobs[j].state = "completed"
        /\ jobs[j].retry_count > 0
        /\ jobs[j].error_message = <<>>
        /\ jobs[j].completed_date # 0
        /\ mark_completed(jobs[j]) = jobs[j]

\* C28: every persisted job has copies >= 1, priority >= 0 and
\* retry_count >= 0, and a create or a write that would set copies < 1,
\* priority < 0 or retry_count < 0 raises ValidationError and leaves the job
\* table as it is.
C28_ValuesInRange ==
    /\ \A j \in JobIds :
           jobs[j].copies >= 1 /\ jobs[j].priority >= 0 /\ jobs[j].retry_count >= 0
    /\ \A i \in JobInputs, copies \in ValuesOf("copies"), prio \in ValuesOf("priority") :
           (copies < 1 \/ prio < 0) =>
               create(jobs, i[1], i[2], i[3], copies, prio)
                   = [js |-> jobs, out |-> "ValidationError"]
    /\ \A j \in JobIds, field \in CheckedFields : \A value \in ValuesOf(field) :
           (value < (IF field = "copies" THEN 1 ELSE 0)) =>
               write_value(jobs, j, field, value) = [js |-> jobs, out |-> "ValidationError"]

\* a job lives with copies 2, priority 0 and a retry counted, and a write of
\* copies 0 on it is refused
C28_Witness ==
    \E j \in JobIds :
        /\ jobs[j].copies = 2
        /\ jobs[j].priority = 0
        /\ jobs[j].retry_count = 1
        /\ write_value(jobs, j, "copies", 0).out = "ValidationError"

\* C29: while email_notifications_enabled is false no failure mail is
\* produced by mark_failed, retry_job or process_job, the retry limit being
\* exceeded or not: the mail log is empty, and no call of mark_failed or
\* retry_job on any job adds to it.
C29_NoMailWhileDisabled ==
    ~cfg.email_enabled =>
        /\ mailed = <<>>
        /\ \A j \in JobIds :
               /\ _notify_admin_failure(j, retry_job(jobs[j], active).notify) = mailed
               /\ \A text \in SinkErrors :
                      _notify_admin_failure(j, mark_failed(jobs[j], MsgSink(text), active).notify)
                          = mailed

\* notifications being disabled, a job has failed for good with the retry
\* limit exceeded, _notify_admin_failure having been invoked, and no mail
\* was sent
C29_Witness ==
    \E j \in JobIds :
        /\ ~cfg.email_enabled
        /\ jobs[j].state = "failed"
        /\ Contains(jobs[j].error_message, "max_retry")
        /\ retry_job(jobs[j], active).notify
        /\ mailed = <<>>

\* C30: every job that is failed with a non-transient error, whether the
\* failure was reported through mark_failed or detected inside process_job,
\* has had _notify_admin_failure invoked: with notifications enabled, a mail
\* for the job is in the mail log.
C30_PermanentFailureNotified ==
    cfg.email_enabled =>
        \A j \in JobIds :
            (jobs[j].state = "failed" /\ ~_is_transient_error(jobs[j].error_message))
                => \E i \in 1..Len(mailed) : mailed[i] = j

\* C31: while a printer is inactive no job assigned to it enters printing:
\* of a job of an inactive printer that is not printing, no handler
\* (submit_job, process_job, retry_job, mark_failed with its automatic retry,
\* cancel_job, mark_completed, the scheduled run, a write on another
\* printer) leaves it printing.
C31_PausedPrinterHoldsJobs ==
    \A j \in JobIds :
        (~active[jobs[j].printer_id] /\ jobs[j].state # "printing") =>
            /\ submit_job(jobs[j], active).state # "printing"
            /\ process_job(jobs[j], active).job.state # "printing"
            /\ retry_job(jobs[j], active).job.state # "printing"
            /\ \A text \in SinkErrors :
                   mark_failed(jobs[j], MsgSink(text), active).job.state # "printing"
            /\ cancel_job(jobs[j]).job.state # "printing"
            /\ mark_completed(jobs[j]).state # "printing"
            /\ process_queued_jobs_run(jobs, active, sequence).js[j].state # "printing"
            /\ \A p \in Printers \ {jobs[j].printer_id}, val \in BOOLEAN :
                   write_jobs(p, val)[j].state # "printing"

\* a job of an inactive printer was retried after a transient failure and
\* the retry's process_job refused it: it is failed with the message that
\* the printer is not active, one retry counted
C31_Witness ==
    \E j \in JobIds :
        /\ ~active[jobs[j].printer_id]
        /\ jobs[j].state = "failed"
        /\ jobs[j].retry_count = 1
        /\ Contains(jobs[j].error_message, "not_active")

\* C32: batch_label_jobs never creates a batch job with fewer than two
\* constituents: when a batch job is created, at least two label jobs of the
\* input were merged, and when one label job remains after the non-label
\* jobs are dropped, the table is left as it is.
C32_BatchNeedsTwoLabels ==
    \A S \in SUBSET JobIds :
        LET b == batch_label_jobs(jobs, AscIds(S), sequence)
            labels == {j \in S : jobs[j].document_type \in label_types}
        IN /\ b.out = "batch" => Cardinality(labels) >= 2
           /\ Cardinality(labels) = 1 => b.js = jobs

\* the payloads in the data of a batch job, separators not counted
PayloadsIn(data) ==
    Cardinality({i \in 1..Len(data) : data[i] \notin {"NL", "CUT"}})

RECURSIVE SumOfCopies(_)
SumOfCopies(S) ==
    IF S = {} THEN 0
    ELSE LET j == CHOOSE x \in S : TRUE
         IN jobs[j].copies + SumOfCopies(S \ {j})

\* C33: batching preserves the number of labels to print: the batch job has
\* copies = 1 and its data holds each constituent's payload once per copy
\* requested, so the payloads in it are as many as the sum of the
\* constituents' copies.  Stated of the batches of two or more labels.
C33_BatchPreservesCopies ==
    \A S \in SUBSET JobIds :
        LET b == batch_label_jobs(jobs, AscIds(S), sequence)
            labels == {j \in S : jobs[j].document_type \in label_types}
        IN (b.out = "batch" /\ Cardinality(labels) >= 2) =>
               /\ b.js[b.batch].copies = 1
               /\ PayloadsIn(b.js[b.batch].data) = SumOfCopies(labels)

\* the jobs of the sequence s are all different
NoRepeat(s) == \A i, k \in 1..Len(s) : s[i] = s[k] => i = k

\* C34: the queue runs never retry inline: process_queued_jobs and the
\* activation drain leave the retry_count of every job as it was, their work
\* lists hold no job twice, and the attempts counted by a run are as many as
\* the jobs of its work lists, so a job that fails in a run is left failed by
\* its one attempt.
C34_NoInlineRetry ==
    LET run == process_queued_jobs_run(jobs, active, sequence)
        work(p) == QueueWork([js |-> jobs, seqno |-> sequence], p)
        all == {p \in Printers : active[p]}
    IN /\ \A j \in JobIds : run.js[j].retry_count = jobs[j].retry_count
       /\ \A j \in 1..Len(run.js) : j \notin JobIds => run.js[j].retry_count = 0
       /\ \A p \in all : NoRepeat(work(p))
       /\ run.processed + run.failed
              = (IF 1 \in all THEN Len(work(1)) ELSE 0) + (IF 2 \in all THEN Len(work(2)) ELSE 0)
       /\ \A j \in JobIds :
              (jobs[j].state = "queued" /\ run.js[j].state = "failed")
                  => run.js[j] = process_job(jobs[j], active).job
       /\ \A p \in Printers :
              ~active[p] =>
                  /\ NoRepeat(QueuedOf(jobs, p))
                  /\ \A j \in JobIds :
                         /\ write_jobs(p, TRUE)[j].retry_count = jobs[j].retry_count
                         /\ (jobs[j].state = "queued" /\ write_jobs(p, TRUE)[j].state = "failed")
                                => write_jobs(p, TRUE)[j]
                                       = process_job(jobs[j], [active EXCEPT ![p] = TRUE]).job

\* the scheduled run attempted a label in html on the active label printer:
\* the job is failed with the message of the missing capability, which reads
\* as transient, and no retry was counted
C34_Witness ==
    \E j \in JobIds :
        /\ active[jobs[j].printer_id]
        /\ jobs[j].state = "failed"
        /\ Contains(jobs[j].error_message, "unsupported")
        /\ _is_transient_error(jobs[j].error_message)
        /\ jobs[j].retry_count = 0
        /\ jobs[j].completed_date = 0

\* C35: process_discovered_printers given the system name of an existing
\* printer that is inactive sets that printer active, creates no printer
\* record, raises no duplicate-name failure, and drains the printer's queued
\* jobs as the write of active = true does.
C35_DiscoveryReactivates ==
    \A p \in Printers :
        ~active[p] =>
            LET r == process_discovered_printers(system_name(p))
            IN /\ r.out = "updated"
               /\ r.active = [active EXCEPT ![p] = TRUE]
               /\ r.created = created_printers
               /\ r.js = write_jobs(p, TRUE)

\* C36: 'Maximum retry count exceeded' is appended to error_message only
\* when a retry of a transient error is refused at the retry limit:
\* retry_job on a failed job whose error is permanent leaves error_message
\* as it is, whatever the job's retry_count.
C36_MaxRetryTextOnlyForTransient ==
    \A j \in JobIds :
        (jobs[j].state = "failed" /\ ~_is_transient_error(jobs[j].error_message)) =>
            retry_job(jobs[j], active).job.error_message = jobs[j].error_message

\* C37: a failure of process_job caused by validation (printer inactive, or
\* printer without the capability for data_format) is permanent, whatever
\* printer name and format name the message holds: the job has
\* completed_date set, and a later retry_job returns False without
\* processing the job again.
C37_ValidationFailurePermanent ==
    \A j \in JobIds :
        LET r == process_job(jobs[j], active)
            again == retry_job(r.job, active)
        IN (/\ jobs[j].state \in {"queued", "failed"}
            /\ ~active[jobs[j].printer_id] \/ ~format_supported(jobs[j]))
           => /\ r.job.state = "failed"
              /\ r.job.completed_date # 0
              /\ ~again.ret
              /\ again.job.state = "failed"
              /\ again.job.retry_count = r.job.retry_count

\* C38: the retry configuration being fixed, every job has
\* retry_count <= max_retries, and no operation lowers a retry_count:
\* submit_job, process_job, mark_failed, retry_job, cancel_job, mark_completed,
\* the scheduled queue run and the activation drain each leave every job's
\* retry_count at least what it was and at most max_retries (a batch job the
\* run creates included).
C38_RetryCountMonotoneBounded ==
    LET Kept(before, after) ==
            /\ after.retry_count >= before.retry_count
            /\ after.retry_count <= cfg.max_retries
        run == process_queued_jobs_run(jobs, active, sequence).js
    IN /\ \A j \in JobIds :
             /\ jobs[j].retry_count <= cfg.max_retries
             /\ Kept(jobs[j], submit_job(jobs[j], active))
             /\ Kept(jobs[j], process_job(jobs[j], active).job)
             /\ Kept(jobs[j], retry_job(jobs[j], active).job)
             /\ Kept(jobs[j], cancel_job(jobs[j]).job)
             /\ Kept(jobs[j], mark_completed(jobs[j]))
             /\ \A text \in SinkErrors :
                   Kept(jobs[j], mark_failed(jobs[j], MsgSink(text), active).job)
             /\ Kept(jobs[j], run[j])
             /\ \A p \in Printers : Kept(jobs[j], write_jobs(p, TRUE)[j])
       /\ \A k \in 1..Len(run) : run[k].retry_count <= cfg.max_retries

\* C38 witness: a job retried up to a limit of at least one and then
\* submitted again keeps the count it had reached.
C38_Witness ==
    \E j \in JobIds :
        /\ cfg.max_retries >= 1
        /\ jobs[j].retry_count = cfg.max_retries
        /\ jobs[j].state = "queued"

\* C39: _notify_admin_failure is invoked at most once per job: no job has
\* two mails in the mail log, and on a job that is terminally failed
\* (failed, completed_date set) and whose administrators were notified,
\* retry_job neither notifies nor changes error_message, and mark_failed
\* does not notify.
C39_NotifiedAtMostOnce ==
    \A j \in JobIds :
        /\ Cardinality({i \in 1..Len(mailed) : mailed[i] = j}) <= 1
        /\ (/\ jobs[j].state = "failed"
            /\ jobs[j].completed_date # 0
            /\ \E i \in 1..Len(mailed) : mailed[i] = j)
           => /\ ~retry_job(jobs[j], active).notify
              /\ retry_job(jobs[j], active).job.error_message = jobs[j].error_message
              /\ \A text \in SinkErrors :
                    ~mark_failed(jobs[j], MsgSink(text), active).notify

\* C40: the two queue triggers are equivalent on one printer: for an active
\* printer p with queued jobs, the activation drain of p and the scheduled
\* run restricted to p leave the same jobs in the same states.
C40_TriggersEquivalent ==
    \A p \in Printers :
        (active[p] /\ QueuedOf(jobs, p) # <<>>) =>
            LET drained == DrainOnActivation(p, active).js
                scheduled == QueueRun([js |-> jobs, processed |-> 0, failed |-> 0,
                                       seqno |-> sequence], <<p>>, active).js
            IN /\ Len(drained) = Len(scheduled)
               /\ \A j \in 1..Len(drained) : drained[j].state = scheduled[j].state

TypeOK ==
    /\ \A j \in JobIds : jobs[j].state \in States
    /\ now \in 1..MaxClock
====
